---- MODULE Spec2Model ----
(***************************************************************************)
(* The slide-navigation controller of src/app/page.tsx                     *)
(* (DesignInfluencesPresentation): the React state currentSlide and        *)
(* direction, the memoised callbacks goToSlide / nextSlide / prevSlide     *)
(* with the currentSlide value their closures captured, the keydown        *)
(* listener the effect registers on window, and what the render shows.     *)
(*                                                                         *)
(* The page is a Next.js app-router client component ('use client'), so    *)
(* it runs on a React 18 root: a click or keydown is a discrete event,     *)
(* the state updates a handler queues are applied in order when the        *)
(* handler returns, the component re-renders and the passive effects of    *)
(* that render run before the next event is dispatched.  One action of the *)
(* model is therefore one event: handlers, queued updates, re-render and   *)
(* effect re-subscription.                                                 *)
(***************************************************************************)
EXTENDS Integers, Sequences, FiniteSets, TLC

\* the registry with its last entry left out
SLIDES_without_last ==
    << "title", "two-solutions", "influence-map",
       "os-solution", "macos-intro", "mingei-intro", "boids-intro",
       "dithering-intro",
       "os2-solution", "ps4-intro", "ps4-principles", "tanaka-intro",
       "tanaka-principles",
       "common-thread", "ma-concept", "comparison", "conclusion" >>

\* the registry with 'conclusion' entered twice and 'mockups' missing
SLIDES_with_duplicate ==
    << "title", "two-solutions", "influence-map",
       "os-solution", "macos-intro", "mingei-intro", "boids-intro",
       "dithering-intro",
       "os2-solution", "ps4-intro", "ps4-principles", "tanaka-intro",
       "tanaka-principles",
       "common-thread", "ma-concept", "comparison", "conclusion", "conclusion" >>

\* page.tsx:68-90, the slide registry in presentation order
SLIDES ==
    << "title", "two-solutions", "influence-map",
       "os-solution", "macos-intro", "mingei-intro", "boids-intro",
       "dithering-intro",
       "os2-solution", "ps4-intro", "ps4-principles", "tanaka-intro",
       "tanaka-principles",
       "common-thread", "ma-concept", "comparison", "conclusion", "mockups" >>

\* SLIDES.length
N == Len(SLIDES)

\* goToSlide is exercised with indices from -TargetSlack to N-1+TargetSlack
TargetSlack == 2

\* the length of a run of identical key presses is counted up to MaxRun
MaxRun == 20

\* e.key values: the three bound keys and one unbound key
Keys == {"ArrowRight", " ", "ArrowLeft", "Enter"}

Targets == (0 - TargetSlack) .. (N - 1 + TargetSlack)

VARIABLES
    currentSlide,      \* useState(0), page.tsx:95
    direction,         \* useState(0), page.tsx:96
    mounted,           \* the component is mounted
    closureSlide,      \* currentSlide as captured by the callbacks of the latest render
    listeners,         \* keydown handlers registered on window, each by its captured currentSlide
    defaultPrevented,  \* e.defaultPrevented of the last dispatched event
    last,              \* the last event handled and the state it was handled in
    run                \* the current run of identical key presses

vars == << currentSlide, direction, mounted, closureSlide, listeners,
           defaultPrevented, last, run >>

\* the pair of React state values a handler's queued updates act on
State == [slide |-> currentSlide, dir |-> direction]

-----------------------------------------------------------------------------
(* The callbacks.  c is the currentSlide value captured by the closure, st  *)
(* the pending state the queued updates apply to: setDirection(v) and       *)
(* setCurrentSlide(v) overwrite, setCurrentSlide(prev => ...) reads the     *)
(* pending value.                                                           *)

\* goToSlide with the upper bound tested by <= instead of <
goToSlide_inclusive(c, st, index) ==
    IF index >= 0 /\ index <= N
    THEN [slide |-> index, dir |-> IF index > c THEN 1 ELSE -1]
    ELSE st

\* goToSlide with the direction's comparison the wrong way round
goToSlide_flipped(c, st, index) ==
    IF index >= 0 /\ index < N
    THEN [slide |-> index, dir |-> IF index < c THEN 1 ELSE -1]
    ELSE st

\* goToSlide with the lower bound tested by > instead of >=
goToSlide_positive(c, st, index) ==
    IF index > 0 /\ index < N
    THEN [slide |-> index, dir |-> IF index > c THEN 1 ELSE -1]
    ELSE st

\* goToSlide with the direction's comparison by >= instead of >
goToSlide_geq(c, st, index) ==
    IF index >= 0 /\ index < N
    THEN [slide |-> index, dir |-> IF index >= c THEN 1 ELSE -1]
    ELSE st

\* goToSlide setting the direction to the sign of index - currentSlide
goToSlide_sign(c, st, index) ==
    IF index >= 0 /\ index < N
    THEN [slide |-> index,
          dir |-> IF index > c THEN 1 ELSE IF index < c THEN -1 ELSE 0]
    ELSE st

goToSlide(c, st, index) ==
    IF index >= 0 /\ index < N
    THEN [slide |-> index, dir |-> IF index > c THEN 1 ELSE -1]
    ELSE st

\* nextSlide without its bounds guard
nextSlide_unguarded(c, st) ==
    [slide |-> st.slide + 1, dir |-> 1]

\* nextSlide without setDirection(1)
nextSlide_keepsDirection(c, st) ==
    IF c < N - 1
    THEN [slide |-> st.slide + 1, dir |-> st.dir]
    ELSE st

\* nextSlide calling setDirection(1) before its bounds guard
nextSlide_directionFirst(c, st) ==
    IF c < N - 1
    THEN [slide |-> st.slide + 1, dir |-> 1]
    ELSE [slide |-> st.slide, dir |-> 1]

nextSlide(c, st) ==
    IF c < N - 1
    THEN [slide |-> st.slide + 1, dir |-> 1]
    ELSE st

\* prevSlide with the guard tested by >= instead of >
prevSlide_inclusive(c, st) ==
    IF c >= 0
    THEN [slide |-> st.slide - 1, dir |-> -1]
    ELSE st

\* prevSlide without setDirection(-1)
prevSlide_keepsDirection(c, st) ==
    IF c > 0
    THEN [slide |-> st.slide - 1, dir |-> st.dir]
    ELSE st

\* prevSlide with the guard currentSlide > 1
prevSlide_fromSecond(c, st) ==
    IF c > 1
    THEN [slide |-> st.slide - 1, dir |-> -1]
    ELSE st

prevSlide(c, st) ==
    IF c > 0
    THEN [slide |-> st.slide - 1, dir |-> -1]
    ELSE st

\* handleKeyDown with the space key left unbound
handleKeyDown_noSpace(c, st, key) ==
    IF key = "ArrowRight"
    THEN nextSlide(c, st)
    ELSE IF key = "ArrowLeft"
         THEN prevSlide(c, st)
         ELSE st

\* handleKeyDown with Enter bound to nextSlide as well
handleKeyDown_enterAdvances(c, st, key) ==
    IF key = "ArrowRight" \/ key = " " \/ key = "Enter"
    THEN nextSlide(c, st)
    ELSE IF key = "ArrowLeft"
         THEN prevSlide(c, st)
         ELSE st

\* handleKeyDown's state updates
handleKeyDown(c, st, key) ==
    IF key = "ArrowRight" \/ key = " "
    THEN nextSlide(c, st)
    ELSE IF key = "ArrowLeft"
         THEN prevSlide(c, st)
         ELSE st

\* handleKeyDown calling e.preventDefault() for the space key only
keyPreventsDefault_spaceOnly(key) ==
    IF key = " "
    THEN TRUE
    ELSE FALSE

\* handleKeyDown's e.preventDefault()
keyPreventsDefault(key) ==
    IF key = "ArrowRight" \/ key = " "
    THEN TRUE
    ELSE IF key = "ArrowLeft"
         THEN TRUE
         ELSE FALSE

\* window dispatches a keydown to every registered listener, in order
RECURSIVE dispatchKeyDown(_, _, _)
dispatchKeyDown(ls, st, key) ==
    IF ls = << >>
    THEN st
    ELSE dispatchKeyDown(Tail(ls), handleKeyDown(Head(ls), st, key), key)

\* window.removeEventListener('keydown', h): drops the registration of h
RECURSIVE removeEventListener(_, _)
removeEventListener(ls, h) ==
    IF ls = << >>
    THEN << >>
    ELSE IF Head(ls) = h
         THEN Tail(ls)
         ELSE << Head(ls) >> \o removeEventListener(Tail(ls), h)

\* window.addEventListener('keydown', h)
addEventListener(ls, h) == Append(ls, h)

\* the keyboard effect without its cleanup: the old handler stays registered
keyboardEffect_noCleanup(ls, old, new) ==
    IF new # old
    THEN addEventListener(ls, new)
    ELSE ls

\* The keyboard effect after a render: its dependencies [nextSlide, prevSlide]
\* are new callbacks exactly when currentSlide changed; then the cleanup of the
\* previous effect runs and the new handler is registered.
keyboardEffect(ls, old, new) ==
    IF new # old
    THEN addEventListener(removeEventListener(ls, old), new)
    ELSE ls

-----------------------------------------------------------------------------
(* What the render shows.                                                  *)

\* disabled={currentSlide === 0}
prevDisabled == currentSlide = 0

\* the next button disabled at currentSlide === SLIDES.length
nextDisabled_pastEnd == currentSlide = N

\* disabled={currentSlide === SLIDES.length - 1}
nextDisabled == currentSlide = N - 1

\* SLIDES.map((_, i) => <button key={i} onClick={() => goToSlide(i)} .../>):
\* the dots in render order, each by the index it passes to goToSlide
dots == [k \in 1 .. Len(SLIDES) |-> k - 1]

dotIndices == {dots[k] : k \in DOMAIN dots}

\* SLIDES[index]: undefined outside the array
identifierAt(index) ==
    IF index >= 0 /\ index < Len(SLIDES)
    THEN SLIDES[index + 1]
    ELSE "undefined"

\* SlideContent without the case for 'mockups'
SlideContent_noMockups(slideId) ==
    CASE slideId = "title"             -> "SlideTitle"
      [] slideId = "two-solutions"     -> "SlideTwoSolutions"
      [] slideId = "influence-map"     -> "SlideInfluenceMap"
      [] slideId = "os-solution"       -> "SlideOSSolution"
      [] slideId = "os2-solution"      -> "SlideOS2Solution"
      [] slideId = "tanaka-intro"      -> "SlideTanakaIntro"
      [] slideId = "tanaka-principles" -> "SlideTanakaPrinciples"
      [] slideId = "ps4-intro"         -> "SlidePS4Intro"
      [] slideId = "ps4-principles"    -> "SlidePS4Principles"
      [] slideId = "mingei-intro"      -> "SlideMingeiIntro"
      [] slideId = "boids-intro"       -> "SlideBoidsIntro"
      [] slideId = "dithering-intro"   -> "SlideDitheringIntro"
      [] slideId = "macos-intro"       -> "SlideMacOSIntro"
      [] slideId = "common-thread"     -> "SlideCommonThread"
      [] slideId = "ma-concept"        -> "SlideMaConcept"
      [] slideId = "comparison"        -> "SlideComparison"
      [] slideId = "conclusion"        -> "SlideConclusion"
      [] OTHER                         -> "null"

\* SlideContent's switch: the component rendered for an identifier, "null"
\* for the default branch
SlideContent(slideId) ==
    CASE slideId = "title"             -> "SlideTitle"
      [] slideId = "two-solutions"     -> "SlideTwoSolutions"
      [] slideId = "influence-map"     -> "SlideInfluenceMap"
      [] slideId = "os-solution"       -> "SlideOSSolution"
      [] slideId = "os2-solution"      -> "SlideOS2Solution"
      [] slideId = "tanaka-intro"      -> "SlideTanakaIntro"
      [] slideId = "tanaka-principles" -> "SlideTanakaPrinciples"
      [] slideId = "ps4-intro"         -> "SlidePS4Intro"
      [] slideId = "ps4-principles"    -> "SlidePS4Principles"
      [] slideId = "mingei-intro"      -> "SlideMingeiIntro"
      [] slideId = "boids-intro"       -> "SlideBoidsIntro"
      [] slideId = "dithering-intro"   -> "SlideDitheringIntro"
      [] slideId = "macos-intro"       -> "SlideMacOSIntro"
      [] slideId = "common-thread"     -> "SlideCommonThread"
      [] slideId = "ma-concept"        -> "SlideMaConcept"
      [] slideId = "comparison"        -> "SlideComparison"
      [] slideId = "conclusion"        -> "SlideConclusion"
      [] slideId = "mockups"           -> "SlideMockups"
      [] OTHER                         -> "null"

\* a dot highlighted when its index is the one after currentSlide
dotHighlighted_next(i) == i = currentSlide + 1

\* i === currentSlide ? 'bg-white w-6' : 'bg-white/30 hover:bg-white/50'
dotHighlighted(i) == i = currentSlide

\* slideVariants.enter: x: dir > 0 ? '100%' : '-100%'
enterX(dir) == IF dir > 0 THEN "100%" ELSE "-100%"

\* slideVariants.exit leaving to the side the content entered from
exitX_sameSide(dir) == IF dir > 0 THEN "100%" ELSE "-100%"

\* slideVariants.exit: x: dir > 0 ? '-100%' : '100%'
exitX(dir) == IF dir > 0 THEN "-100%" ELSE "100%"

\* the motion.div keyed by the direction
motionKey_direction == direction

\* <motion.div key={currentSlide} ...>
motionKey == currentSlide

\* <SlideContent slideId={SLIDES[currentSlide]} />
displayedPayload == SlideContent(identifierAt(currentSlide))

\* the counter showing the zero-based index
slideCounter_zeroBased == ToString(currentSlide) \o " / " \o ToString(N)

\* {currentSlide + 1} / {SLIDES.length}
slideCounter == ToString(currentSlide + 1) \o " / " \o ToString(N)

\* width: ((currentSlide + 1) / SLIDES.length) * 100 percent, as a fraction
progressWidth == [num |-> (currentSlide + 1) * 100, den |-> N]

-----------------------------------------------------------------------------
(* History: the last event and the run of identical key presses.           *)

Event(op, key, index) ==
    [op |-> op, key |-> key, index |-> index,
     pos |-> currentSlide, dir |-> direction, mounted |-> mounted,
     motionKey |-> motionKey]

NoRun(dot, dotFrom) ==
    [key |-> "", n |-> 0, from |-> 0, dot |-> dot, dotFrom |-> dotFrom]

KeyRun(key) ==
    IF run.n > 0 /\ run.key = key
    THEN [run EXCEPT !.n = IF run.n < MaxRun THEN run.n + 1 ELSE MaxRun]
    ELSE [key |-> key, n |-> 1, from |-> currentSlide,
          dot |-> IF run.n = 0 THEN run.dot ELSE -1,
          dotFrom |-> IF run.n = 0 THEN run.dotFrom ELSE -1]

\* AnimatePresence over the keyed motion.div: the payload is remounted, with
\* its exit and enter transition, when a re-render of the mounted view gives
\* the motion.div another key than the render before
payloadRemounted ==
    /\ last.mounted
    /\ last.op # "unmount"
    /\ motionKey # last.motionKey

-----------------------------------------------------------------------------
(* Events.                                                                 *)

\* a commit whose callbacks keep the closure of the first render and whose
\* effect does not re-subscribe (dependency arrays left empty)
Commit_staleClosure(st) ==
    /\ currentSlide' = st.slide
    /\ direction' = st.dir
    /\ UNCHANGED << closureSlide, listeners, mounted >>

\* the queued updates are applied, the component re-renders (new callbacks
\* capture the new currentSlide) and the keyboard effect re-subscribes
Commit(st) ==
    /\ currentSlide' = st.slide
    /\ direction' = st.dir
    /\ closureSlide' = st.slide
    /\ listeners' = keyboardEffect(listeners, closureSlide, st.slide)
    /\ UNCHANGED mounted

Init ==
    /\ currentSlide = 0
    /\ direction = 0
    /\ mounted = TRUE
    /\ closureSlide = 0
    /\ listeners = << 0 >>
    /\ defaultPrevented = FALSE
    /\ last = [op |-> "mount", key |-> "", index |-> 0,
               pos |-> 0, dir |-> 0, mounted |-> FALSE, motionKey |-> 0]
    /\ run = NoRun(-1, -1)

\* a keydown event on window
KeyDown(key) ==
    /\ Commit(dispatchKeyDown(listeners, State, key))
    /\ defaultPrevented' = (listeners # << >> /\ keyPreventsDefault(key))
    /\ last' = Event("keydown", key, 0)
    /\ run' = KeyRun(key)

\* a click on the previous button (a disabled button takes no click)
ClickPrev ==
    /\ mounted
    /\ ~prevDisabled
    /\ Commit(prevSlide(closureSlide, State))
    /\ defaultPrevented' = FALSE
    /\ last' = Event("prev", "", 0)
    /\ run' = NoRun(-1, -1)

\* a click on the next button
ClickNext ==
    /\ mounted
    /\ ~nextDisabled
    /\ Commit(nextSlide(closureSlide, State))
    /\ defaultPrevented' = FALSE
    /\ last' = Event("next", "", 0)
    /\ run' = NoRun(-1, -1)

\* a click on dot i: onClick={() => goToSlide(i)}
ClickDot(i) ==
    /\ mounted
    /\ Commit(goToSlide(closureSlide, State, i))
    /\ defaultPrevented' = FALSE
    /\ last' = Event("dot", "", i)
    /\ run' = NoRun(i, currentSlide)

\* goToSlide called with an arbitrary integer
GoTo(x) ==
    /\ mounted
    /\ Commit(goToSlide(closureSlide, State, x))
    /\ defaultPrevented' = FALSE
    /\ last' = Event("goTo", "", x)
    /\ run' = NoRun(-1, -1)

\* the view is destroyed: the effect's cleanup runs
Unmount ==
    /\ mounted
    /\ mounted' = FALSE
    /\ listeners' = removeEventListener(listeners, closureSlide)
    /\ defaultPrevented' = FALSE
    /\ last' = Event("unmount", "", 0)
    /\ run' = NoRun(-1, -1)
    /\ UNCHANGED << currentSlide, direction, closureSlide >>

\* a load that takes up position and direction where the last session left them
Mount_restoresState ==
    /\ ~mounted
    /\ mounted' = TRUE
    /\ closureSlide' = currentSlide
    /\ listeners' = addEventListener(listeners, currentSlide)
    /\ defaultPrevented' = FALSE
    /\ last' = Event("mount", "", 0)
    /\ run' = NoRun(-1, -1)
    /\ UNCHANGED << currentSlide, direction >>

\* a fresh load: useState(0) twice, first render, first run of the effect
Mount ==
    /\ ~mounted
    /\ mounted' = TRUE
    /\ currentSlide' = 0
    /\ direction' = 0
    /\ closureSlide' = 0
    /\ listeners' = addEventListener(listeners, 0)
    /\ defaultPrevented' = FALSE
    /\ last' = Event("mount", "", 0)
    /\ run' = NoRun(-1, -1)

Next ==
    \/ \E key \in Keys : KeyDown(key)
    \/ ClickPrev
    \/ ClickNext
    \/ \E i \in dotIndices : ClickDot(i)
    \/ \E x \in Targets : GoTo(x)
    \/ Unmount
    \/ Mount

Spec == Init /\ [][Next]_vars

-----------------------------------------------------------------------------
(* Properties.                                                             *)

\* the state the last event was handled in
Pre == [slide |-> last.pos, dir |-> last.dir]

\* the last event was advance(): the next button, or ArrowRight / space
\* delivered to the mounted view
WasAdvance ==
    /\ last.mounted
    /\ \/ last.op = "next"
       \/ last.op = "keydown" /\ last.key \in {"ArrowRight", " "}

\* the last event was retreat(): the previous button, or ArrowLeft
WasRetreat ==
    /\ last.mounted
    /\ \/ last.op = "prev"
       \/ last.op = "keydown" /\ last.key = "ArrowLeft"

\* the last event was goTo(last.index): a dot or a direct call
WasGoTo == last.op \in {"dot", "goTo"}

\* C1: after any sequence of advance, retreat and goTo(x), x in or out of
\* range, the position is within 0 .. N-1.
C1_BoundsInvariant ==
    /\ currentSlide >= 0
    /\ currentSlide < N

\* C1 case: goTo(N) was called at the last slide, after which the position
\* is still N-1
C1_Witness ==
    /\ last.op = "goTo"
    /\ last.index = N
    /\ last.pos = N - 1
    /\ currentSlide = N - 1

\* C2: retreat() at position 0 and advance() at position N-1 leave the
\* position unchanged.
C2_NoOpAtBoundaries ==
    /\ (WasRetreat /\ last.pos = 0) => currentSlide = 0
    /\ (WasAdvance /\ last.pos = N - 1) => currentSlide = N - 1

\* C2 case: ArrowLeft was pressed at position 0 of the mounted view
C2_Witness ==
    /\ WasRetreat
    /\ last.pos = 0
    /\ currentSlide = 0

\* C3: goTo(target) with a target outside 0 .. N-1 leaves position and
\* direction as they were before the call.
C3_OutOfRangeRejection ==
    (WasGoTo /\ (last.index < 0 \/ last.index >= N)) =>
        /\ currentSlide = last.pos
        /\ direction = last.dir

\* C3 case: goTo(N) was called after a navigation had set a direction
C3_Witness ==
    /\ WasGoTo
    /\ last.index = N
    /\ last.dir = 1
    /\ currentSlide = last.pos
    /\ direction = 1

\* C4: after goTo(target) with an in-range target above the old position the
\* direction is +1, with one below it -1, and the position is the target.
C4_DirectionCorrectness ==
    (WasGoTo /\ last.index >= 0 /\ last.index < N) =>
        /\ last.index > last.pos => (direction = 1 /\ currentSlide = last.index)
        /\ last.index < last.pos => (direction = -1 /\ currentSlide = last.index)

\* C4 case: a dot below the current position was clicked while the direction
\* was +1
C4_Witness ==
    /\ WasGoTo
    /\ last.index < last.pos
    /\ last.dir = 1
    /\ direction = -1
    /\ currentSlide = last.index

\* a run of n presses of ArrowRight that began at position 0 of the mounted view
RightPresses(n) ==
    /\ mounted
    /\ run.key = "ArrowRight"
    /\ run.from = 0
    /\ run.n = n

\* C5 as stated: 16 presses of ArrowRight from position 0 give position 16
\* with the next button disabled, a 17th leaves the position at 16, the
\* registry having 17 entries.
C5_AsStated ==
    /\ RightPresses(16) => (currentSlide = 16 /\ nextDisabled)
    /\ RightPresses(17) => currentSlide = 16

\* C5: the registry has 18 entries: 16 presses of ArrowRight from position 0
\* give position 16 with the next button still enabled, 17 presses give
\* position 17, the last slide, with the next button disabled, and an 18th
\* press leaves the position at 17.
C5_ForwardScenario ==
    /\ N = 18
    /\ RightPresses(16) => (currentSlide = 16 /\ ~nextDisabled)
    /\ RightPresses(17) => (currentSlide = 17 /\ nextDisabled)
    /\ RightPresses(18) => (currentSlide = 17 /\ nextDisabled)

\* C5 case: ArrowRight was pressed 18 times from position 0
C5_Witness ==
    /\ RightPresses(18)
    /\ currentSlide = N - 1

\* C6: clicking dot 3 at position 16 gives position 3 and direction -1, and
\* three presses of ArrowLeft after that give position 0 with the previous
\* button disabled.
C6_BackwardScenario ==
    /\ (last.op = "dot" /\ last.index = 3 /\ last.pos = 16) =>
           (currentSlide = 3 /\ direction = -1)
    /\ (mounted /\ run.dot = 3 /\ run.dotFrom = 16
          /\ run.key = "ArrowLeft" /\ run.n = 3) =>
           (currentSlide = 0 /\ prevDisabled)

\* C6 case: dot 3 was clicked at position 16 and ArrowLeft pressed three times
C6_Witness ==
    /\ mounted
    /\ run.dot = 3
    /\ run.dotFrom = 16
    /\ run.key = "ArrowLeft"
    /\ run.n = 3
    /\ run.from = 3
    /\ currentSlide = 0

\* the counter readout for position p
Readout(p) == ToString(p + 1) \o " / " \o ToString(N)

\* C7: at position p the counter shows p+1 and N and the progress ratio is
\* (p+1)/N, which is above 0, at most 1, and 1 exactly at p = N-1; after a
\* successful goTo(p) the readout is the one for p.
C7_IndicatorConsistency ==
    /\ slideCounter = Readout(currentSlide)
    /\ progressWidth.num * N = (currentSlide + 1) * 100 * progressWidth.den
    /\ progressWidth.num > 0
    /\ progressWidth.num <= 100 * progressWidth.den
    /\ (progressWidth.num = 100 * progressWidth.den) <=> (currentSlide = N - 1)
    /\ (WasGoTo /\ last.index >= 0 /\ last.index < N) =>
           slideCounter = Readout(last.index)
    /\ (WasAdvance /\ last.pos < N - 1) => slideCounter = Readout(last.pos + 1)
    /\ (WasRetreat /\ last.pos > 0) => slideCounter = Readout(last.pos - 1)

\* C7 case: a goTo reached the last slide, where the ratio is 1
C7_Witness ==
    /\ WasGoTo
    /\ last.index = N - 1
    /\ last.pos < N - 1
    /\ currentSlide = N - 1
    /\ progressWidth.num = 100 * progressWidth.den

\* C8: advance() and goTo(position + 1) give the same position and direction
\* from every reachable state, the last slide included.
C8_AdvanceIsGoToNext ==
    /\ nextSlide(closureSlide, State) = goToSlide(closureSlide, State, currentSlide + 1)
    /\ WasAdvance => State = goToSlide(last.pos, Pre, last.pos + 1)
    /\ (WasGoTo /\ last.index = last.pos + 1) => State = nextSlide(last.pos, Pre)

\* C8 case: advance() ran below the last slide while the direction was -1
C8_Witness ==
    /\ WasAdvance
    /\ last.pos < N - 1
    /\ last.dir = -1
    /\ currentSlide = last.pos + 1

\* C9: retreat() and goTo(position - 1) give the same position and direction
\* from every reachable state, position 0 included.
C9_RetreatIsGoToPrevious ==
    /\ prevSlide(closureSlide, State) = goToSlide(closureSlide, State, currentSlide - 1)
    /\ WasRetreat => State = goToSlide(last.pos, Pre, last.pos - 1)
    /\ (WasGoTo /\ last.index = last.pos - 1) => State = prevSlide(last.pos, Pre)

\* C9 case: retreat() ran above position 0 while the direction was +1
C9_Witness ==
    /\ WasRetreat
    /\ last.pos > 0
    /\ last.dir = 1
    /\ currentSlide = last.pos - 1

\* C10: on the mounted view a press of ArrowRight or space has the effect of
\* advance() on position and direction, and a press of ArrowLeft that of
\* retreat().
C10_KeyboardBinding ==
    /\ (last.op = "keydown" /\ last.mounted /\ last.key \in {"ArrowRight", " "}) =>
           State = nextSlide(last.pos, Pre)
    /\ (last.op = "keydown" /\ last.mounted /\ last.key = "ArrowLeft") =>
           State = prevSlide(last.pos, Pre)

\* C10 case: space was pressed below the last slide and the position advanced
C10_Witness ==
    /\ last.op = "keydown"
    /\ last.mounted
    /\ last.key = " "
    /\ last.dir = -1
    /\ currentSlide = last.pos + 1
    /\ direction = 1

\* C11: every press of ArrowRight, space or ArrowLeft on the mounted view has
\* its default action suppressed, also where advance() or retreat() is a no-op.
C11_DefaultSuppressed ==
    (last.op = "keydown" /\ last.mounted
       /\ last.key \in {"ArrowRight", " ", "ArrowLeft"}) => defaultPrevented

\* C11 case: ArrowRight was pressed at the last slide, the position did not
\* change and the default action was suppressed
C11_Witness ==
    /\ last.op = "keydown"
    /\ last.mounted
    /\ last.key = "ArrowRight"
    /\ last.pos = N - 1
    /\ currentSlide = N - 1
    /\ defaultPrevented

\* C12: the previous button is disabled exactly at position 0 and the next
\* button exactly at position N-1; a button is enabled exactly when its
\* retreat() / advance() would change the position.
C12_BoundaryAffordance ==
    /\ prevDisabled <=> currentSlide = 0
    /\ nextDisabled <=> currentSlide = N - 1
    /\ ~prevDisabled <=> prevSlide(closureSlide, State).slide # currentSlide
    /\ ~nextDisabled <=> nextSlide(closureSlide, State).slide # currentSlide

\* C12 case: an advance reached the last slide, where the next button is
\* disabled and the previous one is not
C12_Witness ==
    /\ WasAdvance
    /\ last.pos = N - 2
    /\ currentSlide = N - 1
    /\ nextDisabled
    /\ ~prevDisabled

\* C13: there is one dot per registry entry, with the indices 0 .. N-1, and a
\* click on dot i puts the position at i in one step, from every reachable
\* state.
C13_DotNavigation ==
    /\ Len(dots) = N
    /\ Cardinality(dotIndices) = N
    /\ dotIndices = 0 .. N - 1
    /\ last.op = "dot" => currentSlide = last.index
    /\ \A i \in dotIndices : goToSlide(closureSlide, State, i).slide = i

\* C13 case: dot 0 was clicked at the last slide
C13_Witness ==
    /\ last.op = "dot"
    /\ last.index = 0
    /\ last.pos = N - 1
    /\ currentSlide = 0

\* C14: after every mount the position is 0 and the direction is 0, whatever
\* the earlier session had reached.
C14_InitialState ==
    last.op = "mount" => (currentSlide = 0 /\ direction = 0)

\* C14 case: the view was mounted again after a session that ended at the
\* last slide with direction +1
C14_Witness ==
    /\ last.op = "mount"
    /\ last.pos = N - 1
    /\ last.dir = 1
    /\ currentSlide = 0
    /\ direction = 0

\* C15: while the view is mounted exactly one keydown listener is registered
\* on window, the one of the latest render, and after unmount none is.
C15_ScopedSubscription ==
    /\ mounted => listeners = << closureSlide >>
    /\ ~mounted => listeners = << >>

\* C15 case: the view was unmounted away from position 0, after at least one
\* re-subscription, and no listener is left
C15_Witness ==
    /\ last.op = "unmount"
    /\ last.pos > 0
    /\ ~mounted
    /\ listeners = << >>

\* C16 as stated: goTo(target) is idempotent: once goTo(target) with an
\* in-range target has run, running it again leaves position and direction
\* as they are.
C16_AsStated ==
    (WasGoTo /\ last.index >= 0 /\ last.index < N) =>
        goToSlide(closureSlide, State, last.index) = State

\* C17: every identifier of the registry has a payload, the position is in
\* range, and the displayed payload is the one of the identifier at the
\* position: the lookup's null branch is never taken.
C17_ExhaustiveLookup ==
    /\ \A k \in DOMAIN SLIDES : SlideContent(SLIDES[k]) # "null"
    /\ currentSlide >= 0
    /\ currentSlide < N
    /\ displayedPayload = SlideContent(SLIDES[currentSlide + 1])
    /\ displayedPayload # "null"

\* C17 case: an advance reached the last slide, whose payload is displayed
C17_Witness ==
    /\ WasAdvance
    /\ last.pos = N - 2
    /\ currentSlide = N - 1
    /\ identifierAt(currentSlide) = "mockups"
    /\ displayedPayload = "SlideMockups"

\* C18: the identifiers of the registry are pairwise distinct, so that at
\* every reachable position the displayed identifier belongs to no other
\* position, and in every reachable state the registry read by the render is
\* the one of the source, in length and order.
C18_RegistryInvariant ==
    /\ \A i \in 0 .. N - 1 :
           i # currentSlide => identifierAt(i) # identifierAt(currentSlide)
    /\ \A j, k \in DOMAIN SLIDES : j # k => SLIDES[j] # SLIDES[k]
    /\ Cardinality({identifierAt(i) : i \in 0 .. N - 1}) = N
    /\ N = 18
    /\ identifierAt(0) = "title"
    /\ identifierAt(N - 1) = "mockups"

\* C18 case: the view was unmounted at the last slide, after navigation over
\* the whole registry
C18_Witness ==
    /\ last.op = "unmount"
    /\ last.pos = N - 1
    /\ identifierAt(last.pos) = "mockups"
    /\ identifierAt(0) = "title"

\* C19: goTo(target) with target equal to the position leaves the position
\* and sets the direction to -1, whatever it was.
C19_SamePositionGoTo ==
    (WasGoTo /\ last.index = last.pos) =>
        /\ currentSlide = last.pos
        /\ direction = -1

\* C19 case: the dot of the current slide was clicked while the direction
\* was +1
C19_Witness ==
    /\ WasGoTo
    /\ last.index = last.pos
    /\ last.dir = 1
    /\ currentSlide = last.pos
    /\ direction = -1

\* C20: the direction is -1, 0 or +1, and after an advance, retreat or goTo
\* that changed the position it is +1 if the new position is higher and -1 if
\* it is lower.
C20_DirectionFromLastTransition ==
    /\ direction \in {-1, 0, 1}
    /\ (WasAdvance \/ WasRetreat \/ WasGoTo) =>
           /\ currentSlide > last.pos => direction = 1
           /\ currentSlide < last.pos => direction = -1

\* C20 case: a goTo moved to a higher position while the direction was -1
C20_Witness ==
    /\ WasGoTo
    /\ currentSlide > last.pos + 1
    /\ last.dir = -1
    /\ direction = 1

\* C21: from every reachable state each position is reachable: advance()
\* moves one up wherever a higher position exists, retreat() one down
\* wherever a lower one exists, and a dot reaches its position in one step;
\* with more than one slide at least one of advance() and retreat() changes
\* the position.
C21_Reversible ==
    /\ \A t \in 0 .. N - 1 :
          /\ t > currentSlide =>
                 nextSlide(closureSlide, State).slide = currentSlide + 1
          /\ t < currentSlide =>
                 prevSlide(closureSlide, State).slide = currentSlide - 1
          /\ goToSlide(closureSlide, State, t).slide = t
    /\ N > 1 =>
          \/ nextSlide(closureSlide, State).slide # currentSlide
          \/ prevSlide(closureSlide, State).slide # currentSlide

\* C21 case: ArrowLeft presses led from the last slide all the way back to
\* position 0
C21_Witness ==
    /\ mounted
    /\ run.key = "ArrowLeft"
    /\ run.from = N - 1
    /\ run.n = N - 1
    /\ currentSlide = 0

\* the position after n presses of ArrowRight from position p, each press
\* guarded at the position the one before it left
AfterRights(p, n) == IF p + n < N - 1 THEN p + n ELSE N - 1

\* the same for ArrowLeft
AfterLefts(p, n) == IF p - n > 0 THEN p - n ELSE 0

\* C22: every handler's guard reads the position its update applies to: the
\* callbacks and the registered listener are those of the latest render, so
\* a run of presses of one arrow key moves one position per press and stops
\* at the boundary, never beyond it.
C22_NoStaleHandler ==
    /\ closureSlide = currentSlide
    /\ \A k \in DOMAIN listeners : listeners[k] = currentSlide
    /\ (mounted /\ run.n > 0 /\ run.key \in {"ArrowRight", " "}) =>
           currentSlide = AfterRights(run.from, run.n)
    /\ (mounted /\ run.n > 0 /\ run.key = "ArrowLeft") =>
           currentSlide = AfterLefts(run.from, run.n)
    /\ currentSlide >= 0
    /\ currentSlide < N

\* C22 case: ArrowRight was pressed twice from position N-2; the second press
\* found the handler of position N-1 and did nothing
C22_Witness ==
    /\ mounted
    /\ run.key = "ArrowRight"
    /\ run.from = N - 2
    /\ run.n = 2
    /\ currentSlide = N - 1
    /\ listeners = << N - 1 >>

\* C23: exactly one dot is highlighted, the one whose index is the position.
C23_DotHighlight ==
    /\ Cardinality({k \in DOMAIN dots : dotHighlighted(dots[k])}) = 1
    /\ \A k \in DOMAIN dots : dotHighlighted(dots[k]) <=> dots[k] = currentSlide

\* C23 case: a dot click moved the highlight from the last dot to another
C23_Witness ==
    /\ last.op = "dot"
    /\ last.pos = N - 1
    /\ last.index < N - 1
    /\ dotHighlighted(last.index)
    /\ ~dotHighlighted(last.pos)

\* the opposite side of an offset
Mirrored(x) == IF x = "100%" THEN "-100%" ELSE "100%"

\* C24: for each direction -1, 0, +1 the exit offset is the opposite side of
\* the entry offset; with direction +1 content enters from 100% and exits to
\* -100%, with direction -1 it enters from -100% and exits to 100%.
C24_MirroredVectors ==
    /\ direction \in {-1, 0, 1}
    /\ enterX(direction) \in {"100%", "-100%"}
    /\ exitX(direction) = Mirrored(enterX(direction))
    /\ \A dir \in {-1, 0, 1} : exitX(dir) = Mirrored(enterX(dir))
    /\ enterX(1) = "100%" /\ exitX(1) = "-100%"
    /\ enterX(-1) = "-100%" /\ exitX(-1) = "100%"

\* C24 case: a retreat turned the direction from +1 to -1, so content now
\* enters from -100% and exits to 100%
C24_Witness ==
    /\ WasRetreat
    /\ last.dir = 1
    /\ direction = -1
    /\ enterX(direction) = "-100%"
    /\ exitX(direction) = "100%"

\* C25: advance() at position N-1 and retreat() at position 0 change neither
\* the position nor the direction.
C25_BoundaryNoOpKeepsDirection ==
    /\ (WasAdvance /\ last.pos = N - 1) => State = Pre
    /\ (WasRetreat /\ last.pos = 0) => State = Pre

\* C25 case: advance() ran at the last slide while the direction was -1, and
\* the direction is still -1
C25_Witness ==
    /\ WasAdvance
    /\ last.pos = N - 1
    /\ last.dir = -1
    /\ currentSlide = N - 1
    /\ direction = -1

\* C26: direction 0 implies position 0, and within a session a direction
\* that is not 0 never becomes 0 again.
C26_DirectionZeroOnlyAtStart ==
    /\ [](direction = 0 => currentSlide = 0)
    /\ [][(mounted /\ mounted' /\ direction # 0) => direction' # 0]_vars

\* C26 case: a retreat came back to position 0, where the direction is -1
C26_Witness ==
    /\ WasRetreat
    /\ last.pos = 1
    /\ currentSlide = 0
    /\ direction = -1

\* C27: a press of a key other than ArrowRight, space and ArrowLeft leaves
\* position and direction unchanged and does not suppress the default action.
C27_UnboundKeysInert ==
    (last.op = "keydown" /\ last.key \notin {"ArrowRight", " ", "ArrowLeft"}) =>
        /\ State = Pre
        /\ ~defaultPrevented

\* C27 case: Enter was pressed on the mounted view in the middle of the deck
C27_Witness ==
    /\ last.op = "keydown"
    /\ last.key = "Enter"
    /\ last.mounted
    /\ last.pos > 0
    /\ last.pos < N - 1
    /\ last.dir = 1
    /\ State = Pre
    /\ ~defaultPrevented

\* C28: after an event on the mounted view the payload is remounted exactly
\* when the position changed; goTo(position) changes the direction without
\* remounting the payload.
C28_KeyedByPosition ==
    /\ (last.mounted /\ last.op # "unmount") =>
           (payloadRemounted <=> currentSlide # last.pos)
    /\ (WasGoTo /\ last.index = last.pos /\ last.dir # -1) =>
           (direction # last.dir /\ ~payloadRemounted)

\* C28 case: the dot of the current slide was clicked while the direction was
\* +1: the direction changed and the payload stayed mounted
C28_Witness ==
    /\ last.op = "dot"
    /\ last.index = last.pos
    /\ last.dir = 1
    /\ direction = -1
    /\ ~payloadRemounted

====
